---- MODULE Spec2Model ----
(***************************************************************************)
(* Model of app.py: the multi-step booking wizard (session-held progress   *)
(* and current step), the form validator, the estimate calculator and the  *)
(* bookings table with the admin update.                                   *)
(*                                                                         *)
(* Representation of Python values:                                        *)
(*   - free-text strings (name, email, phone, location, message) are       *)
(*     sequences of one-character strings, so strip(), len(), the phone    *)
(*     pattern and the "@" / "." tests are computed on the characters;     *)
(*   - service_type is never taken apart by the code, it is a TLA+ string; *)
(*   - a preferred_date string is [kind, off]: "empty", "junk" (strptime   *)
(*     raises ValueError) or "iso" (strptime succeeds and yields the date  *)
(*     off days after date.today());                                       *)
(*   - a posted form is [has, ...]: has is the set of posted keys.         *)
(*                                                                         *)
(* call holds the last direct call of one of the pure functions            *)
(* (validate_and_clean, calc_estimate) with its arguments and its result.  *)
(***************************************************************************)
EXTENDS Integers, Sequences, FiniteSets, TLC

VARIABLES session, bookings, last, call

vars == <<session, bookings, last, call>>

\* ---------------------------------------------------------------- bounds
MaxBookings == 1

\* ------------------------------------------------------ static catalogs
SERVICE_PRICE_TABLE ==
    [ storefront_cleaning |-> 15000,
      fixture_install     |-> 26000,
      event_support       |-> 22000,
      emergency_support   |-> 14000,
      office_move_light   |-> 32000 ]

OPTION_FIELDS ==
    << "options_photoreport", "options_priority_visit",
       "options_weekend_visit", "options_extra_staff" >>

OptionSet == { OPTION_FIELDS[i] : i \in 1..Len(OPTION_FIELDS) }

OPTION_PRICE ==
    [ options_photoreport    |-> 1000,
      options_priority_visit |-> 4000,
      options_weekend_visit  |-> 2500,
      options_extra_staff    |-> 6000 ]

ALLOWED_SERVICE_TYPES == DOMAIN SERVICE_PRICE_TABLE

STEP_SEQUENCE == << "contact", "service", "options", "confirm" >>

StepSet == { STEP_SEQUENCE[i] : i \in 1..Len(STEP_SEQUENCE) }

STEP_FIELDS ==
    [ contact |-> {"name", "phone", "email"},
      service |-> {"service_type", "location", "preferred_date"},
      options |-> OptionSet \cup {"message"},
      confirm |-> {} ]

TextFields == {"name", "email", "phone", "location", "message"}

DataKeys == TextFields \cup {"service_type", "preferred_date"} \cup OptionSet

\* -------------------------------------------------------- string helpers
Whitespace == {" ", "\t", "\n"}

PhoneChars == {"0", "1", "2", "3", "4", "5", "6", "7", "8", "9",
               "+", "-", "(", ")", " "}

RECURSIVE LStrip(_)
LStrip(s) ==
    IF s # <<>> /\ Head(s) \in Whitespace THEN LStrip(Tail(s)) ELSE s

RECURSIVE RStrip(_)
RStrip(s) ==
    IF s # <<>> /\ s[Len(s)] \in Whitespace
    THEN RStrip(SubSeq(s, 1, Len(s) - 1))
    ELSE s

\* str.strip()
Strip(s) == RStrip(LStrip(s))

Contains(s, c) == \E i \in 1..Len(s) : s[i] = c

\* the date string read by strptime
EmptyDate == [kind |-> "empty", off |-> 0]
JunkDate == [kind |-> "junk", off |-> 0]
IsoDate(n) == [kind |-> "iso", off |-> n]

\* values of a nullable column
Null(d) == [null |-> TRUE, v |-> d]
Some(x) == [null |-> FALSE, v |-> x]

\* ------------------------------------------------- Python values, dicts
\* the raw value of an option key in a dict: a bool (from the stored
\* progress), a str (from a posted form) or None (key missing)
PyBool(b) == [t |-> "bool", b |-> b, s |-> ""]
PyStr(s) == [t |-> "str", b |-> FALSE, s |-> s]
PyNone == [t |-> "none", b |-> FALSE, s |-> ""]

\* _default_progress()
DefaultProgress ==
    [ name |-> <<>>, email |-> <<>>, phone |-> <<>>,
      service_type |-> "", location |-> <<>>,
      preferred_date |-> EmptyDate, message |-> <<>>,
      options_photoreport |-> FALSE, options_priority_visit |-> FALSE,
      options_weekend_visit |-> FALSE, options_extra_staff |-> FALSE ]

\* _normalize_progress(raw): raw is None (Null) or a stored/cleaned record
NormalizeProgress(raw) ==
    LET updated == IF raw.null THEN DefaultProgress ELSE raw.v
    IN  [ updated EXCEPT
            !.options_photoreport    = (@ = TRUE),
            !.options_priority_visit = (@ = TRUE),
            !.options_weekend_visit  = (@ = TRUE),
            !.options_extra_staff    = (@ = TRUE),
            !.preferred_date = IF @.kind = "empty" THEN EmptyDate ELSE @ ]

\* a dict handed to validate_and_clean: has is the set of its keys
ProgressDict(p) ==
    [ has |-> DataKeys,
      name |-> p.name, email |-> p.email, phone |-> p.phone,
      service_type |-> p.service_type, location |-> p.location,
      preferred_date |-> p.preferred_date, message |-> p.message,
      options_photoreport    |-> PyBool(p.options_photoreport),
      options_priority_visit |-> PyBool(p.options_priority_visit),
      options_weekend_visit  |-> PyBool(p.options_weekend_visit),
      options_extra_staff    |-> PyBool(p.options_extra_staff) ]

\* request.form.to_dict(flat=True), without the keys the validator never
\* reads ("_validate", "est_price")
ToDict(form) ==
    [ has |-> form.has \cap DataKeys,
      name |-> form.name, email |-> form.email, phone |-> form.phone,
      service_type |-> form.service_type, location |-> form.location,
      preferred_date |-> form.preferred_date, message |-> form.message,
      options_photoreport    |-> PyStr(form.options_photoreport),
      options_priority_visit |-> PyStr(form.options_priority_visit),
      options_weekend_visit  |-> PyStr(form.options_weekend_visit),
      options_extra_staff    |-> PyStr(form.options_extra_staff) ]

\* {**a, **b}
MergeDict(a, b) ==
    [ k \in {"has"} \cup DataKeys |->
        IF k = "has" THEN a.has \cup b.has
        ELSE IF k \in b.has THEN b[k] ELSE a[k] ]

\* d with key k set to the str s (incoming[field] = ..., setdefault)
SetStr(d, k, s) == [ d EXCEPT !["has"] = @ \cup {k}, ![k] = PyStr(s) ]

\* form.get(key) or ""  for the text keys
GetText(d, k) == IF k \in d.has THEN d[k] ELSE <<>>

\* form.get(field) for the option keys
GetRaw(d, k) == IF k \in d.has THEN d[k] ELSE PyNone

\* ------------------------------------------------------------ estimate
RECURSIVE SumEnabled(_, _)
SumEnabled(options, keys) ==
    IF keys = {} THEN 0
    ELSE LET field == CHOOSE k \in keys : TRUE
         IN  (IF options[field]
              THEN (IF field \in DOMAIN OPTION_PRICE
                    THEN OPTION_PRICE[field] ELSE 0)
              ELSE 0)
             + SumEnabled(options, keys \ {field})

\* as calc_estimate, nothing at all for a service the table does not have
calc_estimate_known_only(service_type, options) ==
    IF service_type \in DOMAIN SERVICE_PRICE_TABLE
    THEN SERVICE_PRICE_TABLE[service_type] + SumEnabled(options, DOMAIN options)
    ELSE 0

\* calc_estimate(service_type, options); options maps field names to bools
calc_estimate(service_type, options) ==
    LET base == IF service_type \in DOMAIN SERVICE_PRICE_TABLE
                THEN SERVICE_PRICE_TABLE[service_type] ELSE 0
        extra == SumEnabled(options, DOMAIN options)
    IN  base + extra

OptionFlags(data) == [ f \in OptionSet |-> data[f] ]

\* ---------------------------------------------------------- validation
MinPhoneLen == 9
MaxPhoneLen == 16
MaxEmailLen == 200
MaxNameLen == 120
MaxLocationLen == 300
MaxMessageLen == 500
\* as MaxDaysAhead, the last of the days excluded
MaxDaysAheadExclusive == 180 - 1
MaxDaysAhead == 180

AllPhoneChars(s) == \A i \in 1..Len(s) : s[i] \in PhoneChars

\* as PHONE_RE_match, the class written with \s in place of the space
PHONE_RE_match_whitespace(s) ==
    /\ Len(s) >= MinPhoneLen /\ Len(s) <= MaxPhoneLen
    /\ \A i \in 1..Len(s) : s[i] \in PhoneChars \cup Whitespace

\* PHONE_RE.match(s): ^[0-9+\-() ]{9,16}$  ($ also matches just before a
\* final newline)
PHONE_RE_match(s) ==
    \/ /\ Len(s) >= MinPhoneLen /\ Len(s) <= MaxPhoneLen
       /\ AllPhoneChars(s)
    \/ /\ Len(s) >= MinPhoneLen + 1 /\ Len(s) <= MaxPhoneLen + 1
       /\ s[Len(s)] = "\n"
       /\ AllPhoneChars(SubSeq(s, 1, Len(s) - 1))

\* raw_value if isinstance(raw_value, bool) else raw_value == "on"
CleanFlag(raw) ==
    CASE raw.t = "bool" -> raw.b
      [] raw.t = "str"  -> raw.s = "on"
      [] OTHER          -> FALSE

\* step 1 of validate_and_clean: the cleaned record
CleanData(form) ==
    [ name |-> Strip(GetText(form, "name")),
      email |-> Strip(GetText(form, "email")),
      phone |-> Strip(GetText(form, "phone")),
      service_type |-> IF "service_type" \in form.has
                       THEN form.service_type ELSE "",
      location |-> Strip(GetText(form, "location")),
      preferred_date |-> IF "preferred_date" \in form.has
                         THEN form.preferred_date ELSE EmptyDate,
      message |-> Strip(GetText(form, "message")),
      options_photoreport    |-> CleanFlag(GetRaw(form, "options_photoreport")),
      options_priority_visit |-> CleanFlag(GetRaw(form, "options_priority_visit")),
      options_weekend_visit  |-> CleanFlag(GetRaw(form, "options_weekend_visit")),
      options_extra_staff    |-> CleanFlag(GetRaw(form, "options_extra_staff")) ]

\* as IsEmpty, testing for None: the cleaned values are never None
IsEmptyIsNone(data, key) == FALSE

\* not data[key], for the four required keys
IsEmpty(data, key) ==
    IF key = "service_type" THEN data.service_type = "" ELSE data[key] = <<>>

\* the error validate_and_clean leaves on one field ("" when none); the
\* rules run in the code's order and a later rule overwrites an earlier one
FieldError(data, key, partial, fields_set) ==
    LET checked == (~partial) \/ key \in fields_set
        required ==
            IF key \in {"name", "phone", "service_type", "location"}
               /\ IsEmpty(data, key) /\ checked
            THEN "required" ELSE ""
        service ==
            IF key = "service_type" /\ data.service_type # ""
               /\ data.service_type \notin ALLOWED_SERVICE_TYPES /\ checked
            THEN "invalid_choice" ELSE required
        phone ==
            IF key = "phone" /\ data.phone # <<>>
               /\ ~PHONE_RE_match(data.phone) /\ checked
            THEN "phone_format" ELSE service
        email ==
            IF key = "email" /\ data.email # <<>>
               /\ (~Contains(data.email, "@") \/ ~Contains(data.email, ".")
                   \/ Len(data.email) > MaxEmailLen)
               /\ checked
            THEN "email_format" ELSE phone
        length ==
            IF checked /\ ( \/ key = "name" /\ Len(data.name) > MaxNameLen
                            \/ key = "location" /\ Len(data.location) > MaxLocationLen
                            \/ key = "message" /\ Len(data.message) > MaxMessageLen )
            THEN "too_long" ELSE email
        dated ==
            IF key = "preferred_date" /\ data.preferred_date.kind # "empty"
               /\ checked
            THEN CASE data.preferred_date.kind = "junk" -> "date_format"
                   [] data.preferred_date.off < 0 -> "date_past"
                   [] data.preferred_date.off > MaxDaysAhead -> "date_too_far"
                   [] OTHER -> length
            ELSE length
    IN  dated

\* validate_and_clean(form, partial=..., fields=...): fields is a set, the
\* empty set standing for None as well as for [] (both are falsy)
validate_and_clean(form, partial, fields) ==
    LET data == CleanData(form)
        fields_set == IF fields = {} THEN DataKeys ELSE fields
        found == [ k \in DataKeys |-> FieldError(data, k, partial, fields_set) ]
        bad == { k \in DataKeys : found[k] # "" }
    IN  [ data |-> data, errors |-> [ k \in bad |-> found[k] ] ]

\* ------------------------------------------------------- session access
Sessions == {"s1"}

EmptySession ==
    [ booking_progress |-> Null(DefaultProgress),
      booking_current_step |-> Null("") ]

get_booking_progress(s) == NormalizeProgress(s.booking_progress)

store_booking_progress(s, progress) ==
    [ s EXCEPT !.booking_progress = Some(NormalizeProgress(Some(progress))) ]

\* as clear_booking_progress, without the second pop
clear_booking_progress_keeps_step(s) ==
    [ s EXCEPT !.booking_progress = Null(DefaultProgress) ]

clear_booking_progress(s) ==
    [ s EXCEPT !.booking_progress = Null(DefaultProgress),
               !.booking_current_step = Null("") ]

get_current_step(s) ==
    IF (~s.booking_current_step.null) /\ s.booking_current_step.v \in StepSet
    THEN s.booking_current_step.v
    ELSE STEP_SEQUENCE[1]

\* as set_current_step, storing the step as it is given
set_current_step_unchecked(s, step) ==
    [ s EXCEPT !.booking_current_step = Some(step) ]

set_current_step(s, step) ==
    [ s EXCEPT !.booking_current_step =
                   Some(IF step \in StepSet THEN step ELSE STEP_SEQUENCE[1]) ]

StepIndex(step) == CHOOSE i \in 1..Len(STEP_SEQUENCE) : STEP_SEQUENCE[i] = step

\* as get_adjacent_steps, the index taken modulo the length
get_adjacent_steps_wraps(step) ==
    IF step \notin StepSet THEN [prev_step |-> "", next_step |-> ""]
    ELSE LET idx == StepIndex(step)
         IN  [ prev_step |-> IF idx > 1 THEN STEP_SEQUENCE[idx - 1] ELSE "",
               next_step |-> STEP_SEQUENCE[(idx % Len(STEP_SEQUENCE)) + 1] ]

\* get_adjacent_steps(step): "" stands for None
get_adjacent_steps(step) ==
    IF step \notin StepSet THEN [prev_step |-> "", next_step |-> ""]
    ELSE LET idx == StepIndex(step)
         IN  [ prev_step |-> IF idx > 1 THEN STEP_SEQUENCE[idx - 1] ELSE "",
               next_step |-> IF idx + 1 <= Len(STEP_SEQUENCE)
                             THEN STEP_SEQUENCE[idx + 1] ELSE "" ]

\* as ShownPrice, without the test of the service type
ShownPriceAnyService(data) == calc_estimate(data.service_type, OptionFlags(data))

\* the price render_step_template and estimate() show for a record
ShownPrice(data) ==
    IF data.service_type \in DOMAIN SERVICE_PRICE_TABLE
    THEN calc_estimate(data.service_type, OptionFlags(data))
    ELSE 0

NoErrors == [ k \in {} |-> "" ]

\* render_step_template(step, data, errors): what the response shows
render_step_template(step, data, errors) ==
    LET payload == NormalizeProgress(Some(data))
    IN  [ step |-> step, errors |-> errors, price |-> ShownPrice(payload) ]

NoView == [ step |-> "", errors |-> NoErrors, price |-> 0 ]

\* --------------------------------------------------------- posted forms
\* request.form: has is the set of posted keys; a key that is not posted
\* carries its empty value
EmptyForm ==
    [ has |-> {},
      name |-> <<>>, email |-> <<>>, phone |-> <<>>,
      service_type |-> "", location |-> <<>>,
      preferred_date |-> EmptyDate, message |-> <<>>,
      options_photoreport |-> "", options_priority_visit |-> "",
      options_weekend_visit |-> "", options_extra_staff |-> "",
      _validate |-> "", est_price |-> 0 ]

Digits9 == << "0", "9", "0", "1", "2", "3", "4", "5", "6" >>
ShortPhone == << "1", "2", "-", "3" >>
GoodEmail == << "a", "@", "b", ".", "c" >>
BadEmail == << "a", "b" >>

ContactOk ==
    [ EmptyForm EXCEPT !.has = {"name", "phone", "email"},
        !.name = << " ", "A", "l" >>, !.phone = Digits9, !.email = GoodEmail ]

ContactBad ==
    [ EmptyForm EXCEPT !.has = {"name", "phone", "email"},
        !.name = << " " >>, !.phone = ShortPhone, !.email = BadEmail ]

ServiceOk ==
    [ EmptyForm EXCEPT !.has = {"service_type", "location", "preferred_date"},
        !.service_type = "storefront_cleaning", !.location = << "X" >>,
        !.preferred_date = IsoDate(0) ]

ServiceBad ==
    [ EmptyForm EXCEPT !.has = {"service_type", "location", "preferred_date"},
        !.service_type = "bogus", !.location = <<>>,
        !.preferred_date = IsoDate(-1) ]

OptionsSome ==
    [ EmptyForm EXCEPT
        !.has = {"options_photoreport", "options_extra_staff", "message"},
        !.options_photoreport = "on", !.options_extra_staff = "1",
        !.message = << "m" >> ]

BookOk ==
    [ EmptyForm EXCEPT
        !.has = {"name", "email", "phone", "service_type", "location",
                 "preferred_date", "message", "options_photoreport",
                 "options_priority_visit", "est_price"},
        !.name = << "A", "l" >>, !.email = GoodEmail,
        !.phone = << " " >> \o Digits9,
        !.service_type = "fixture_install", !.location = << "X" >>,
        !.preferred_date = IsoDate(MaxDaysAhead),
        !.options_photoreport = "on", !.options_priority_visit = "1",
        !.est_price = 1 ]

BookMin ==
    [ EmptyForm EXCEPT
        !.has = {"name", "phone", "service_type", "location"},
        !.name = << "A", "l" >>, !.phone = Digits9,
        !.service_type = "storefront_cleaning", !.location = << "X" >> ]

\* every field of ContactBad and ServiceBad, and a tampered price
BookBad ==
    [ ContactBad EXCEPT
        !.has = ContactBad.has \cup ServiceBad.has \cup {"est_price"},
        !.service_type = ServiceBad.service_type,
        !.location = ServiceBad.location,
        !.preferred_date = ServiceBad.preferred_date,
        !.est_price = 1 ]

\* f with the live-validation marker _validate=1
ValidateOnly(f) == [ f EXCEPT !.has = @ \cup {"_validate"}, !._validate = "1" ]

StepRequest(step, form) == [ step |-> step, form |-> form ]

\* POSTs to /booking/step/<step>: each step with a valid and an invalid
\* form of its own, posts of another step's fields, live validation
StepRequests ==
    { StepRequest("contact", ContactOk), StepRequest("contact", ContactBad),
      StepRequest("contact", ValidateOnly(ContactOk)),
      StepRequest("service", ServiceOk), StepRequest("service", ServiceBad),
      StepRequest("service", ValidateOnly(ServiceBad)),
      StepRequest("service", ContactBad),
      StepRequest("options", OptionsSome), StepRequest("options", EmptyForm),
      StepRequest("confirm", EmptyForm),
      StepRequest("confirm", ValidateOnly(OptionsSome)) }

\* BookMin with a name of white space alone
BookBlankName == [ BookMin EXCEPT !.name = << " " >> ]

\* forms posted to /estimate and to /book
EstimateForms == { EmptyForm, ServiceBad, OptionsSome }
BookForms == { BookOk, BookMin, BookBad, BookBlankName }

\* the few wizard requests of the specification of the whole program
FewStepRequests ==
    { StepRequest("contact", ContactBad), StepRequest("confirm", EmptyForm) }
FewSteps == { "options", "payment" }

\* the step names a client may put in the URL
StepNames == StepSet \cup {"payment"}

\* request.form.get(key), truthiness, for the option keys
FormTruthy(form, k) == k \in form.has /\ form[k] # ""

\* ------------------------------------------------------- last exchange
NoAdmin ==
    [ auth |-> FALSE, booking_id |-> 0, has_status |-> FALSE, status |-> "",
      has_note |-> FALSE, note |-> "" ]

\* the last request (route, method, session, step in the URL, whether it
\* carried _validate=1, the est_price it posted, the admin form) and its
\* response (status code, what the rendered step shows, the booking the
\* redirect names)
Exchange(op, method, sid, step, form, admin, code, view, booking_id) ==
    [ op |-> op, method |-> method, sid |-> sid, step |-> step,
      validate_only |-> ("_validate" \in form.has /\ form._validate = "1"),
      client_price |-> IF "est_price" \in form.has THEN form.est_price ELSE 0,
      admin |-> admin, code |-> code, view |-> view,
      booking_id |-> booking_id ]

\* no function called yet
NoCall == [ fn |-> "none", done |-> FALSE ]

Init ==
    /\ session = [ sid \in Sessions |-> EmptySession ]
    /\ bookings = <<>>
    /\ last = Exchange("none", "", "", "", EmptyForm, NoAdmin, 0, NoView, 0)
    /\ call = NoCall

\* ------------------------------------------------------------- GET /
Index(sid) ==
    LET s0 == session[sid]
        progress == get_booking_progress(s0)
        s1 == store_booking_progress(s0, progress)
        current_step == get_current_step(s1)
        s2 == set_current_step(s1, current_step)
    IN  /\ session' = [ session EXCEPT ![sid] = s2 ]
        /\ last' = Exchange("index", "GET", sid, "", EmptyForm, NoAdmin, 200,
                            render_step_template(current_step, progress, NoErrors), 0)
        /\ UNCHANGED bookings

\* ------------------------------------------------ /booking/step/<step>
\* as BookingStepNotFound, the step made current before the test
BookingStepNotFoundSetsStep(sid, method, step, form) ==
    /\ step \notin StepSet
    /\ session' = [ session EXCEPT ![sid] = set_current_step(@, step) ]
    /\ last' = Exchange("booking_step", method, sid, step, form, NoAdmin, 404,
                        NoView, 0)
    /\ UNCHANGED bookings

\* step not in STEP_SEQUENCE: abort(404)
BookingStepNotFound(sid, method, step, form) ==
    /\ step \notin StepSet
    /\ last' = Exchange("booking_step", method, sid, step, form, NoAdmin, 404,
                        NoView, 0)
    /\ UNCHANGED <<session, bookings>>

\* as BookingStepGet, the current step kept in one place for all sessions
BookingStepGetShared(sid, step) ==
    /\ step \in StepSet
    /\ LET s0 == session[sid]
           progress == get_booking_progress(s0)
       IN  /\ session' = [ x \in DOMAIN session |->
                               set_current_step(session[x], step) ]
           /\ last' = Exchange("booking_step", "GET", sid, step, EmptyForm,
                               NoAdmin, 200,
                               render_step_template(step, progress, NoErrors), 0)
    /\ UNCHANGED bookings

BookingStepGet(sid, step) ==
    /\ step \in StepSet
    /\ LET s0 == session[sid]
           progress == get_booking_progress(s0)
           s1 == set_current_step(s0, step)
       IN  /\ session' = [ session EXCEPT ![sid] = s1 ]
           /\ last' = Exchange("booking_step", "GET", sid, step, EmptyForm,
                               NoAdmin, 200,
                               render_step_template(step, progress, NoErrors), 0)
    /\ UNCHANGED bookings

\* incoming of booking_step: to_dict, and on the options step every option
\* key rewritten to "on" / ""
RECURSIVE RewriteOptions(_, _, _)
RewriteOptions(incoming, form, i) ==
    IF i > Len(OPTION_FIELDS) THEN incoming
    ELSE RewriteOptions(
             SetStr(incoming, OPTION_FIELDS[i],
                    IF FormTruthy(form, OPTION_FIELDS[i]) THEN "on" ELSE ""),
             form, i + 1)

\* as StepIncoming, without the rewrite on the options step
StepIncomingKeepsFlags(step, form) == ToDict(form)

StepIncoming(step, form) ==
    IF step = "options" THEN RewriteOptions(ToDict(form), form, 1)
    ELSE ToDict(form)

\* {k: v for k, v in errors.items() if k in STEP_FIELDS.get(step, [])}
StepErrors(errors, step) ==
    [ k \in (DOMAIN errors) \cap STEP_FIELDS[step] |-> errors[k] ]

\* as StepTarget, without the return on step_errors
StepTargetIgnoresErrors(step, step_errors, validate_only) ==
    IF validate_only THEN step
    ELSE IF get_adjacent_steps(step).next_step # ""
         THEN get_adjacent_steps(step).next_step
         ELSE step

\* as StepTarget, without the return on validate_only
StepTargetIgnoresValidateOnly(step, step_errors, validate_only) ==
    IF DOMAIN step_errors # {} THEN step
    ELSE IF get_adjacent_steps(step).next_step # ""
         THEN get_adjacent_steps(step).next_step
         ELSE step

\* as StepTarget, advancing to the last step
StepTargetSkips(step, step_errors, validate_only) ==
    IF DOMAIN step_errors # {} THEN step
    ELSE IF validate_only THEN step
    ELSE STEP_SEQUENCE[Len(STEP_SEQUENCE)]

\* the step booking_step makes current after a POST
StepTarget(step, step_errors, validate_only) ==
    IF DOMAIN step_errors # {} THEN step
    ELSE IF validate_only THEN step
    ELSE IF get_adjacent_steps(step).next_step # ""
         THEN get_adjacent_steps(step).next_step
         ELSE step

\* the merge and the partial validation of a step POST: the cleaned record
\* and the errors on the step's own fields
StepValidation(s, step, form) ==
    LET progress == get_booking_progress(s)
        combined == MergeDict(ProgressDict(progress), StepIncoming(step, form))
        r == validate_and_clean(combined, TRUE, STEP_FIELDS[step])
    IN  [ cleaned |-> r.data, step_errors |-> StepErrors(r.errors, step) ]

BookingStepPost(sid, step, form) ==
    /\ step \in StepSet
    /\ LET s0 == session[sid]
           validate_only == "_validate" \in form.has /\ form._validate = "1"
           v == StepValidation(s0, step, form)
           s1 == store_booking_progress(s0, v.cleaned)
           target == StepTarget(step, v.step_errors, validate_only)
           s2 == set_current_step(s1, target)
       IN  /\ session' = [ session EXCEPT ![sid] = s2 ]
           /\ last' = Exchange("booking_step", "POST", sid, step, form, NoAdmin,
                               200,
                               render_step_template(target, v.cleaned,
                                                    v.step_errors),
                               0)
    /\ UNCHANGED bookings

\* ------------------------------------------------------- POST /estimate
EstimateIncoming(form) ==
    IF form.has # {} THEN RewriteOptions(ToDict(form), form, 1)
    ELSE ToDict(form)

Estimate(sid, form) ==
    LET s0 == session[sid]
        progress == get_booking_progress(s0)
        combined == MergeDict(ProgressDict(progress), EstimateIncoming(form))
        r == validate_and_clean(combined, TRUE, {"service_type"} \cup OptionSet)
        cleaned == r.data
        s1 == store_booking_progress(s0, cleaned)
        price == IF cleaned.service_type \in DOMAIN SERVICE_PRICE_TABLE
                 THEN calc_estimate(cleaned.service_type, OptionFlags(cleaned))
                 ELSE 0
    IN  /\ session' = [ session EXCEPT ![sid] = s1 ]
        /\ last' = Exchange("estimate", "POST", sid, "", form, NoAdmin, 200,
                            [ NoView EXCEPT !.price = price ], 0)
        /\ UNCHANGED bookings

\* ----------------------------------------------------------- POST /book
\* payload.setdefault(field, "") for every option field
RECURSIVE SetDefaultOptions(_, _)
SetDefaultOptions(payload, i) ==
    IF i > Len(OPTION_FIELDS) THEN payload
    ELSE SetDefaultOptions(
             IF OPTION_FIELDS[i] \in payload.has THEN payload
             ELSE SetStr(payload, OPTION_FIELDS[i], ""),
             i + 1)

\* Booking.validate_email: raises ValueError on a non-empty value without
\* "@" or "."
validate_email_raises(value) ==
    (~value.null) /\ value.v # <<>>
    /\ (~Contains(value.v, "@") \/ ~Contains(value.v, "."))

\* as NewBooking, trusting a posted est_price
NewBookingClientPrice(id, data, form) ==
    [ id |-> id,
      created_at |-> id,
      name |-> data.name,
      email |-> IF data.email # <<>> THEN Some(data.email) ELSE Null(<<>>),
      phone |-> data.phone,
      service_type |-> data.service_type,
      location |-> data.location,
      preferred_date |-> IF data.preferred_date.kind # "empty"
                         THEN Some(data.preferred_date.off) ELSE Null(0),
      options_photoreport |-> data.options_photoreport,
      options_priority_visit |-> data.options_priority_visit,
      options_weekend_visit |-> data.options_weekend_visit,
      options_extra_staff |-> data.options_extra_staff,
      message |-> IF data.message # <<>> THEN Some(data.message) ELSE Null(<<>>),
      est_price |-> IF "est_price" \in form.has THEN form.est_price
                    ELSE calc_estimate(data.service_type, OptionFlags(data)),
      status |-> "new",
      admin_note |-> Null("") ]

\* the Booking row book() builds from the cleaned data; the column
\* defaults give status "new" and no admin note; created_at is the row's
\* position in creation order
NewBooking(id, data, form) ==
    [ id |-> id,
      created_at |-> id,
      name |-> data.name,
      email |-> IF data.email # <<>> THEN Some(data.email) ELSE Null(<<>>),
      phone |-> data.phone,
      service_type |-> data.service_type,
      location |-> data.location,
      preferred_date |-> IF data.preferred_date.kind # "empty"
                         THEN Some(data.preferred_date.off) ELSE Null(0),
      options_photoreport |-> data.options_photoreport,
      options_priority_visit |-> data.options_priority_visit,
      options_weekend_visit |-> data.options_weekend_visit,
      options_extra_staff |-> data.options_extra_staff,
      message |-> IF data.message # <<>> THEN Some(data.message) ELSE Null(<<>>),
      est_price |-> calc_estimate(data.service_type, OptionFlags(data)),
      status |-> "new",
      admin_note |-> Null("") ]

\* as BookRejected, without set_current_step
BookRejectedKeepsStep(s, data) == store_booking_progress(s, data)

\* the session after a rejected /book
BookRejected(s, data) ==
    set_current_step(store_booking_progress(s, data), "confirm")

\* the full validation book() runs on the posted form
BookValidation(form) ==
    validate_and_clean(SetDefaultOptions(ToDict(form), 1), FALSE, {})

\* as Book, validating the posted form merged over the stored progress
BookMergesProgress(sid, form) ==
    LET s0 == session[sid]
        r == validate_and_clean(
                 MergeDict(ProgressDict(get_booking_progress(s0)),
                           SetDefaultOptions(ToDict(form), 1)),
                 FALSE, {})
        b == NewBooking(Len(bookings) + 1, r.data, form)
    IN  IF DOMAIN r.errors # {}
        THEN /\ session' = [ session EXCEPT ![sid] = BookRejected(s0, r.data) ]
             /\ last' = Exchange("book", "POST", sid, "", form, NoAdmin, 400,
                                 render_step_template("confirm", r.data, r.errors),
                                 0)
             /\ UNCHANGED bookings
        ELSE IF validate_email_raises(b.email)
        THEN /\ last' = Exchange("book", "POST", sid, "", form, NoAdmin, 500,
                                 NoView, 0)
             /\ UNCHANGED <<session, bookings>>
        ELSE /\ Len(bookings) < MaxBookings
             /\ bookings' = Append(bookings, b)
             /\ session' = [ session EXCEPT ![sid] = clear_booking_progress(s0) ]
             /\ last' = Exchange("book", "POST", sid, "", form, NoAdmin, 302,
                                 NoView, b.id)

Book(sid, form) ==
    LET s0 == session[sid]
        r == BookValidation(form)
        b == NewBooking(Len(bookings) + 1, r.data, form)
    IN  IF DOMAIN r.errors # {}
        THEN /\ session' = [ session EXCEPT ![sid] = BookRejected(s0, r.data) ]
             /\ last' = Exchange("book", "POST", sid, "", form, NoAdmin, 400,
                                 render_step_template("confirm", r.data, r.errors),
                                 0)
             /\ UNCHANGED bookings
        ELSE IF validate_email_raises(b.email)
        THEN /\ last' = Exchange("book", "POST", sid, "", form, NoAdmin, 500,
                                 NoView, 0)
             /\ UNCHANGED <<session, bookings>>
        ELSE /\ Len(bookings) < MaxBookings
             /\ bookings' = Append(bookings, b)
             /\ session' = [ session EXCEPT ![sid] = clear_booking_progress(s0) ]
             /\ last' = Exchange("book", "POST", sid, "", form, NoAdmin, 302,
                                 NoView, b.id)

\* ------------------------------------------- POST /admin/<id>/update
\* as UpdatedBooking, with form.get(key) in place of form.get(key, default)
UpdatedBookingNoDefault(b, admin) ==
    [ b EXCEPT
        !.status = IF admin.has_status THEN admin.status ELSE "",
        !.admin_note = IF admin.has_note THEN Some(admin.note) ELSE Null("") ]

\* the row after admin_update: form.get("status", b.status) and
\* form.get("admin_note", b.admin_note)
UpdatedBooking(b, admin) ==
    [ b EXCEPT
        !.status = IF admin.has_status THEN admin.status ELSE @,
        !.admin_note = IF admin.has_note THEN Some(admin.note) ELSE @ ]

\* posted admin forms: a status alone (a listed one, an unlisted one), a
\* note alone, both; one without credentials, one for a missing row
AdminForm(auth, id, has_status, status, has_note, note) ==
    [ auth |-> auth, booking_id |-> id, has_status |-> has_status,
      status |-> status, has_note |-> has_note, note |-> note ]

AdminForms ==
    { AdminForm(TRUE, id, TRUE, st, FALSE, "") :
          id \in 1..MaxBookings, st \in {"done", "archived"} }
    \cup { AdminForm(TRUE, id, FALSE, "", TRUE, "called") : id \in 1..MaxBookings }
    \cup { AdminForm(FALSE, 1, TRUE, "done", FALSE, ""),
            AdminForm(TRUE, MaxBookings + 1, TRUE, "done", FALSE, "") }

AdminUpdate(admin) ==
    IF ~admin.auth
       THEN /\ last' = Exchange("admin_update", "POST", "", "", EmptyForm, admin,
                                401, NoView, 0)
            /\ UNCHANGED <<session, bookings>>
       ELSE IF admin.booking_id \notin 1..Len(bookings)
       THEN /\ last' = Exchange("admin_update", "POST", "", "", EmptyForm, admin,
                                404, NoView, 0)
            /\ UNCHANGED <<session, bookings>>
       ELSE /\ bookings' = [ bookings EXCEPT ![admin.booking_id] =
                                 UpdatedBooking(@, admin) ]
            /\ last' = Exchange("admin_update", "POST", "", "", EmptyForm, admin,
                                302, NoView, admin.booking_id)
            /\ UNCHANGED session

\* ------------------------------------------------------- specification
\* the whole program: every route, the wizard driven by a few requests
Next ==
    \/ \E sid \in DOMAIN session : Index(sid) /\ UNCHANGED call
    \/ \E sid \in DOMAIN session, method \in {"GET", "POST"}, step \in FewSteps :
           BookingStepNotFound(sid, method, step, EmptyForm) /\ UNCHANGED call
    \/ \E sid \in DOMAIN session, step \in FewSteps : BookingStepGet(sid, step) /\ UNCHANGED call
    \/ \E sid \in DOMAIN session, q \in FewStepRequests :
           BookingStepPost(sid, q.step, q.form) /\ UNCHANGED call
    \/ \E sid \in DOMAIN session : Estimate(sid, EmptyForm) /\ UNCHANGED call
    \/ \E sid \in DOMAIN session, form \in BookForms : Book(sid, form) /\ UNCHANGED call
    \/ \E admin \in AdminForms : AdminUpdate(admin) /\ UNCHANGED call

Spec == Init /\ [][Next]_vars

\* the public routes, driven by every request of the sets above
NextWizard ==
    \/ \E sid \in DOMAIN session : Index(sid) /\ UNCHANGED call
    \/ \E sid \in DOMAIN session, method \in {"GET", "POST"}, step \in StepNames :
           BookingStepNotFound(sid, method, step, EmptyForm) /\ UNCHANGED call
    \/ \E sid \in DOMAIN session, step \in StepNames : BookingStepGet(sid, step) /\ UNCHANGED call
    \/ \E sid \in DOMAIN session, q \in StepRequests :
           BookingStepPost(sid, q.step, q.form) /\ UNCHANGED call
    \/ \E sid \in DOMAIN session, form \in EstimateForms : Estimate(sid, form) /\ UNCHANGED call
    \/ \E sid \in DOMAIN session, form \in BookForms : Book(sid, form) /\ UNCHANGED call

SpecWizard == Init /\ [][NextWizard]_vars

\* two browser sessions and a few requests of every public route, made in
\* any order by either of them
TwoSessions == {"s1", "s2"}

InitTwo ==
    /\ session = [ sid \in TwoSessions |-> EmptySession ]
    /\ bookings = <<>>
    /\ last = Exchange("none", "", "", "", EmptyForm, NoAdmin, 0, NoView, 0)
    /\ call = NoCall

NextTwo ==
    \/ \E sid \in DOMAIN session : Index(sid) /\ UNCHANGED call
    \/ \E sid \in DOMAIN session :
           BookingStepNotFound(sid, "GET", "payment", EmptyForm) /\ UNCHANGED call
    \/ \E sid \in DOMAIN session : BookingStepGet(sid, "options") /\ UNCHANGED call
    \/ \E sid \in DOMAIN session, form \in {ContactOk, ContactBad} :
           BookingStepPost(sid, "contact", form) /\ UNCHANGED call
    \/ \E sid \in DOMAIN session : Estimate(sid, OptionsSome) /\ UNCHANGED call
    \/ \E sid \in DOMAIN session, form \in {BookMin, BookBlankName} :
           Book(sid, form) /\ UNCHANGED call

SpecTwo == InitTwo /\ [][NextTwo]_vars

\* ------------------------------------------ direct calls of the functions
\* phone strings handed to the validator: empty, too short, nine digits,
\* white space before and after, a tab inside, sixteen and seventeen
\* characters, a letter, punctuation
Digits8 == SubSeq(Digits9, 1, 8)
Digits16 == Digits9 \o SubSeq(Digits9, 1, 7)

PhoneInputs ==
    { <<>>, ShortPhone, Digits9, << " " >> \o Digits9, Digits8 \o << " " >>,
      SubSeq(Digits9, 1, 4) \o << "\t" >> \o SubSeq(Digits9, 5, 9),
      Digits16, << " " >> \o Digits16, Digits16 \o << "0" >>,
      Digits8 \o << "a" >>,
      << "(", "0", "3", ")", " ", "1", "2", "3", "-", "4", "5", "6" >> }

\* preferred_date strings: none, unparsable, and dates on both sides of
\* today and of today + timedelta(days=180)
DateInputs ==
    { EmptyDate, JunkDate }
    \cup { IsoDate(n) : n \in {-1, 0, 1, MaxDaysAhead - 1, MaxDaysAhead,
                               MaxDaysAhead + 1} }

\* the form argument of validate_and_clean: a dict with these four keys
ValidateDict(name, phone, service_type, preferred_date) ==
    [ ToDict(EmptyForm) EXCEPT
        !.has = {"name", "phone", "service_type", "preferred_date"},
        !.name = name, !.phone = phone, !.service_type = service_type,
        !.preferred_date = preferred_date ]

ValidateInputs ==
    { ValidateDict(name, phone, service_type, preferred_date) :
          name \in { <<>>, << "A", "l" >> }, phone \in PhoneInputs,
          service_type \in { "", "bogus", "event_support" },
          preferred_date \in DateInputs }

\* the fields argument: not given (None), or a list of field names
FieldsNone == [ given |-> FALSE, set |-> {} ]
FieldsList(F) == [ given |-> TRUE, set |-> F ]

FieldArgs ==
    { FieldsNone }
    \cup { FieldsList(STEP_FIELDS[step]) : step \in StepSet }
    \cup { FieldsList({"phone"}), FieldsList({"preferred_date"}) }

\* a call about to be made: validate_and_clean(form, partial=partial,
\* fields=fields)
PendingValidate(form, partial, fields) ==
    [ fn |-> "validate_and_clean", done |-> FALSE, form |-> form,
      partial |-> partial, fields |-> fields ]

\* cleaned, errors = validate_and_clean(...)
CallValidate ==
    /\ call.fn = "validate_and_clean" /\ ~call.done
    /\ call' = [ fn |-> call.fn, done |-> TRUE, form |-> call.form,
                 partial |-> call.partial, fields |-> call.fields,
                 result |-> validate_and_clean(call.form, call.partial,
                                               call.fields.set) ]
    /\ UNCHANGED <<session, bookings, last>>

\* service codes handed to calc_estimate: the catalog, an unknown code, ""
ServiceInputs == ALLOWED_SERVICE_TYPES \cup { "bogus", "" }

\* options dicts: any of the four option fields and a field the option
\* table does not have, each enabled or disabled
OptionKeys == OptionSet \cup { "options_gift_wrap" }
OptionInputs == UNION { [ K -> BOOLEAN ] : K \in SUBSET OptionKeys }

\* a call about to be made: calc_estimate(service_type, options)
PendingEstimate(service_type, options) ==
    [ fn |-> "calc_estimate", done |-> FALSE, service_type |-> service_type,
      options |-> options ]

CallEstimate ==
    /\ call.fn = "calc_estimate" /\ ~call.done
    /\ call' = [ fn |-> call.fn, done |-> TRUE,
                 service_type |-> call.service_type, options |-> call.options,
                 result |-> calc_estimate(call.service_type, call.options) ]
    /\ UNCHANGED <<session, bookings, last>>

\* one call of one of the two functions, with any argument of the sets
\* above, outside any request
InitPure ==
    /\ session = [ sid \in Sessions |-> EmptySession ]
    /\ bookings = <<>>
    /\ last = Exchange("none", "", "", "", EmptyForm, NoAdmin, 0, NoView, 0)
    /\ call \in { PendingValidate(form, partial, fields) :
                      form \in ValidateInputs, partial \in BOOLEAN,
                      fields \in FieldArgs }
                \cup { PendingEstimate(service_type, options) :
                           service_type \in ServiceInputs,
                           options \in OptionInputs }

NextPure == CallValidate \/ CallEstimate

SpecPure == InitPure /\ [][NextPure]_vars

\* ================================================================ claims
\* the current step of a session as the code reads it
Cur(sid) == get_current_step(session[sid])

\* the last exchange was a served POST to /booking/step/<step>
StepPosted ==
    last.op = "booking_step" /\ last.method = "POST" /\ last.code = 200

\* the immediate successor in contact -> service -> options -> confirm,
\* the last step being its own
Successor(step) ==
    CASE step = "contact" -> "service"
      [] step = "service" -> "options"
      [] step = "options" -> "confirm"
      [] step = "confirm" -> "confirm"

Position(step) ==
    CASE step = "contact" -> 1
      [] step = "service" -> 2
      [] step = "options" -> 3
      [] step = "confirm" -> 4

\* C1: every persisted booking's est_price is calc_estimate of its own
\* service_type and option flags, in every reachable state: whatever price
\* the request posted, and after any admin update.
C1_PriceRecomputed ==
    \A i \in 1..Len(bookings) :
        bookings[i].est_price =
            calc_estimate(bookings[i].service_type, OptionFlags(bookings[i]))

\* a booking committed by a request that posted another price, then touched
\* by an admin update
C1_Witness ==
    /\ last.op = "admin_update" /\ last.code = 302
    /\ Len(bookings) = 1
    /\ bookings[1].options_photoreport
    /\ bookings[1].est_price = 27000
    /\ BookOk.est_price = 1

\* C2: a POST /book whose fields pass the full validation adds exactly one
\* row, keeps the rows there were, and pops the session's progress and
\* current step, so that the GET / that follows shows the step contact with
\* the default progress.
C2_BookCommits ==
    [][ /\ \A sid \in DOMAIN session, form \in BookForms :
             (Book(sid, form) /\ DOMAIN BookValidation(form).errors = {})
             => /\ last'.code = 302
                /\ Len(bookings') = Len(bookings) + 1
                /\ SubSeq(bookings', 1, Len(bookings)) = bookings
                /\ session'[sid].booking_progress.null
                /\ session'[sid].booking_current_step.null
        /\ (last.op = "book" /\ last.code = 302
            /\ last'.op = "index" /\ last'.sid = last.sid)
           => /\ last'.view.step = "contact"
              /\ last'.view.errors = NoErrors
              /\ last'.view.price = 0
              /\ get_current_step(session'[last.sid]) = "contact"
              /\ get_booking_progress(session'[last.sid]) = DefaultProgress
      ]_vars

\* a commit has just happened and left the session without wizard state
C2_Witness ==
    /\ last.op = "book" /\ last.code = 302
    /\ Len(bookings) = 1 /\ last.booking_id = 1
    /\ session[last.sid].booking_progress.null
    /\ Cur(last.sid) = "contact"

\* C3: a POST /book whose fields fail the full validation persists nothing,
\* answers 400 with the errors, keeps a stored progress (the cleaned posted
\* fields) and leaves the current step at confirm.
C3_BookRejected ==
    [][ \A sid \in DOMAIN session, form \in BookForms :
          (Book(sid, form) /\ DOMAIN BookValidation(form).errors # {})
          => /\ bookings' = bookings
             /\ last'.code = 400
             /\ last'.view.errors = BookValidation(form).errors
             /\ ~session'[sid].booking_progress.null
             /\ get_booking_progress(session'[sid]) = BookValidation(form).data
             /\ get_current_step(session'[sid]) = "confirm"
      ]_vars

\* a rejected /book: 400, an error shown, no row, progress kept
C3_Witness ==
    /\ last.op = "book" /\ last.code = 400
    /\ "service_type" \in DOMAIN last.view.errors
    /\ bookings = <<>>
    /\ ~session[last.sid].booking_progress.null
    /\ Cur(last.sid) = "confirm"

\* C4: a POST to /booking/step/{s} whose merged data has an error on one of
\* step s's own fields leaves the current step at s; the step contact with
\* an empty name gives the name-required error.
C4_NoAdvanceOnError ==
    [][ \A sid \in DOMAIN session, q \in StepRequests :
          LET v == StepValidation(session[sid], q.step, q.form)
          IN  (/\ last'.op = "booking_step" /\ last'.method = "POST"
               /\ last'.sid = sid /\ last'.step = q.step
               /\ BookingStepPost(sid, q.step, q.form)
               /\ DOMAIN v.step_errors # {})
              => /\ get_current_step(session'[sid]) = q.step
                 /\ get_current_step(session'[sid]) # Successor(q.step)
                 /\ last'.view.step = q.step
                 /\ last'.view.errors = v.step_errors
                 /\ (q.step = "contact" /\ v.cleaned.name = <<>>)
                    => ("name" \in DOMAIN last'.view.errors
                        /\ last'.view.errors["name"] = "required")
      ]_vars

\* step contact posted with a blank name: the error is shown and contact
\* is current
C4_Witness ==
    /\ StepPosted /\ last.step = "contact" /\ ~last.validate_only
    /\ "name" \in DOMAIN last.view.errors
    /\ last.view.errors["name"] = "required"
    /\ Cur(last.sid) = "contact"
    /\ get_booking_progress(session[last.sid]).name = <<>>

\* C5: a POST to /booking/step/{s} without _validate=1 and with no error on
\* step s's fields makes the immediate successor of s current; for s =
\* confirm the current step stays confirm.
C5_AdvanceOnSuccess ==
    [][ \A sid \in DOMAIN session, q \in StepRequests :
          LET v == StepValidation(session[sid], q.step, q.form)
          IN  (/\ last'.op = "booking_step" /\ last'.method = "POST"
               /\ last'.sid = sid /\ last'.step = q.step
               /\ BookingStepPost(sid, q.step, q.form)
               /\ DOMAIN v.step_errors = {}
               /\ ~("_validate" \in q.form.has /\ q.form._validate = "1"))
              => /\ get_current_step(session'[sid]) = Successor(q.step)
                 /\ last'.view.step = Successor(q.step)
      ]_vars

\* the terminal step posted successfully: confirm stays current
C5_Witness ==
    /\ StepPosted /\ last.step = "confirm" /\ ~last.validate_only
    /\ last.view.errors = NoErrors
    /\ Cur(last.sid) = "confirm"

\* C6 as stated: after a validate-only POST to /booking/step/{s} the
\* current step is not later in the sequence than it was before, for every
\* prior state and every s.
C6_NeverLaterThanBefore ==
    [][ (last'.op = "booking_step" /\ last'.method = "POST"
         /\ last'.code = 200 /\ last'.validate_only)
        => Position(get_current_step(session'[last'.sid]))
               <= Position(get_current_step(session[last'.sid]))
      ]_vars

\* C6 as amended: a validate-only POST to /booking/step/{s} makes s itself
\* current, never the successor of s, whether or not the validation of
\* step s's fields succeeds (s may be later than the step that was
\* current).
C6_ValidateOnlyStays ==
    [][ \A sid \in DOMAIN session, q \in StepRequests :
          (/\ last'.op = "booking_step" /\ last'.method = "POST"
           /\ last'.sid = sid /\ last'.step = q.step
           /\ "_validate" \in q.form.has /\ q.form._validate = "1"
           /\ BookingStepPost(sid, q.step, q.form))
          => /\ get_current_step(session'[sid]) = q.step
             /\ last'.view.step = q.step
             /\ last'.validate_only
      ]_vars

\* a validate-only POST whose validation succeeded, on a step with a
\* successor: the step posted to is current
C6_Witness ==
    /\ StepPosted /\ last.validate_only
    /\ last.view.errors = NoErrors
    /\ last.step = "contact"
    /\ Cur(last.sid) = "contact"

\* C7 as stated: in a single request the current step never moves forward
\* by more than one position.
C7_AtMostOneForward ==
    [][ \A sid \in DOMAIN session :
          Position(get_current_step(session'[sid]))
              <= Position(get_current_step(session[sid])) + 1
      ]_vars

\* C7 as amended: GET / and POST /estimate and a 404 leave the current step
\* as it is, GET /booking/step/{s} makes s current from any step, a POST
\* to /booking/step/{s} makes s or the immediate successor of s current, a
\* rejected POST /book makes confirm current and a committed one contact;
\* so the pointer moves at most one position past the step the request
\* names, not past the step that was current.
C7_StepMoves ==
    [][ \A sid \in DOMAIN session :
          LET before == get_current_step(session[sid])
              after == get_current_step(session'[sid])
          IN  /\ last'.sid # sid => after = before
              /\ last'.sid = sid =>
                   CASE last'.op \in {"index", "estimate"} -> after = before
                     [] last'.op = "booking_step" /\ last'.code = 404 ->
                            after = before
                     [] last'.op = "booking_step" /\ last'.code = 200
                        /\ last'.method = "GET" -> after = last'.step
                     [] last'.op = "booking_step" /\ last'.code = 200
                        /\ last'.method = "POST" ->
                            after \in {last'.step, Successor(last'.step)}
                     [] last'.op = "book" /\ last'.code = 400 ->
                            after = "confirm"
                     [] last'.op = "book" /\ last'.code = 302 ->
                            after = "contact"
                     [] OTHER -> after = before
      ]_vars

\* confirm is current after a GET although no step was ever submitted
C7_Witness ==
    /\ last.op = "booking_step" /\ last.method = "GET" /\ last.code = 200
    /\ last.step = "confirm"
    /\ Cur(last.sid) = "confirm"
    /\ session[last.sid].booking_progress.null

\* C8: every persisted booking's status is one of new, confirmed, done,
\* canceled, in every reachable state.
C8_StatusInLifecycle ==
    \A i \in 1..Len(bookings) :
        bookings[i].status \in {"new", "confirmed", "done", "canceled"}

\* the columns admin_update never writes
FrameOf(b) ==
    [ id |-> b.id, created_at |-> b.created_at, name |-> b.name,
      email |-> b.email, phone |-> b.phone,
      service_type |-> b.service_type, location |-> b.location,
      preferred_date |-> b.preferred_date,
      options_photoreport |-> b.options_photoreport,
      options_priority_visit |-> b.options_priority_visit,
      options_weekend_visit |-> b.options_weekend_visit,
      options_extra_staff |-> b.options_extra_staff,
      message |-> b.message, est_price |-> b.est_price ]

\* C9: rows are added only by a committed POST /book (one at a time, with
\* the next id), never removed, and changed only by an admin update and
\* only in status and admin_note; an admin update that posts no status
\* (no admin_note) leaves the status (the note) as it was.
C9_BookingFrame ==
    [][ /\ Len(bookings') >= Len(bookings)
        /\ \A i \in 1..Len(bookings) :
             /\ FrameOf(bookings'[i]) = FrameOf(bookings[i])
             /\ bookings'[i].id = i
             /\ bookings'[i].status # bookings[i].status
                => (last'.op = "admin_update" /\ last'.admin.has_status
                    /\ last'.admin.booking_id = i)
             /\ bookings'[i].admin_note # bookings[i].admin_note
                => (last'.op = "admin_update" /\ last'.admin.has_note
                    /\ last'.admin.booking_id = i)
        /\ Len(bookings') > Len(bookings)
           => /\ last'.op = "book" /\ last'.code = 302
              /\ Len(bookings') = Len(bookings) + 1
      ]_vars

\* an admin update that posted a note and no status has acted on a row
\* whose status an earlier update had set
C9_Witness ==
    /\ last.op = "admin_update" /\ last.code = 302
    /\ last.admin.has_note /\ ~last.admin.has_status
    /\ bookings[last.admin.booking_id].status = "done"
    /\ bookings[last.admin.booking_id].admin_note = Some("called")
    /\ bookings[last.admin.booking_id].name = << "A", "l" >>

\* C10: every persisted booking has non-empty name, phone, service_type
\* and location, a service_type of the catalog, a phone of 9 to 16
\* characters of the phone pattern, and an email that is absent or holds
\* both "@" and ".".
C10_BookingsValid ==
    \A i \in 1..Len(bookings) :
        LET b == bookings[i]
        IN  /\ b.name # <<>> /\ b.phone # <<>> /\ b.location # <<>>
            /\ b.service_type # ""
            /\ b.service_type \in
                   {"storefront_cleaning", "fixture_install", "event_support",
                    "emergency_support", "office_move_light"}
            /\ Len(b.phone) \in 9..16
            /\ \A k \in 1..Len(b.phone) :
                   b.phone[k] \in {"0", "1", "2", "3", "4", "5", "6", "7", "8",
                                   "9", "+", "-", "(", ")", " "}
            /\ \/ b.email.null
               \/ (\E k \in 1..Len(b.email.v) : b.email.v[k] = "@")
                  /\ (\E k \in 1..Len(b.email.v) : b.email.v[k] = ".")

\* a booking without email has just been committed, its phone stripped
C10_Witness ==
    /\ last.op = "book" /\ last.code = 302
    /\ bookings[last.booking_id].email.null
    /\ bookings[last.booking_id].phone = Digits9

\* C11: in partial mode with a requested field subset F, every key of the
\* error mapping validate_and_clean returns is in F.
C11_ErrorsWithinRequested ==
    (call.fn = "validate_and_clean" /\ call.done /\ call.partial
     /\ call.fields.given)
        => DOMAIN call.result.errors \subseteq call.fields.set

\* the catalog's base price of a service code, 0 for any other code
C12_Base(service_type) ==
    CASE service_type = "storefront_cleaning" -> 15000
      [] service_type = "fixture_install"     -> 26000
      [] service_type = "event_support"       -> 22000
      [] service_type = "emergency_support"   -> 14000
      [] service_type = "office_move_light"   -> 32000
      [] OTHER -> 0

\* amount when the flag is in the dict and enabled, 0 otherwise
C12_Surcharge(options, flag, amount) ==
    IF flag \in DOMAIN options /\ options[flag] THEN amount ELSE 0

\* C12: for every service_type and every dict of option flags,
\* calc_estimate returns the base price of the service (0 for an unknown
\* one) plus the surcharges of the enabled flags of the option table;
\* disabled flags and enabled flags the table does not have add nothing.
C12_BasePlusEnabledSurcharges ==
    (call.fn = "calc_estimate" /\ call.done)
        => call.result =
               C12_Base(call.service_type)
               + C12_Surcharge(call.options, "options_photoreport", 1000)
               + C12_Surcharge(call.options, "options_priority_visit", 4000)
               + C12_Surcharge(call.options, "options_weekend_visit", 2500)
               + C12_Surcharge(call.options, "options_extra_staff", 6000)

\* calc_estimate was called for an unknown service with an enabled table
\* flag, an enabled flag outside the table and a disabled table flag, and
\* returned the one surcharge
C12_Witness ==
    /\ call.fn = "calc_estimate" /\ call.done
    /\ call.service_type = "bogus"
    /\ DOMAIN call.options = {"options_photoreport", "options_gift_wrap",
                              "options_weekend_visit"}
    /\ call.options["options_photoreport"]
    /\ call.options["options_gift_wrap"]
    /\ ~call.options["options_weekend_visit"]
    /\ call.result = 1000

\* the last exchange rendered a price: a wizard step (GET /, a served
\* /booking/step/<step>, a rejected /book) or the estimate fragment
C13_PriceShown ==
    \/ last.op = "index"
    \/ last.op = "booking_step" /\ last.code = 200
    \/ last.op = "estimate"
    \/ last.op = "book" /\ last.code = 400

\* C13: the price shown by POST /estimate and by every rendered wizard
\* step is 0 when the service_type of the session's progress is not a
\* catalog code, whatever the option flags; otherwise it is calc_estimate
\* of that service type and the four stored option flags.
C13_ZeroForUnknownService ==
    C13_PriceShown =>
        LET progress == get_booking_progress(session[last.sid])
            flags == [ f \in {"options_photoreport", "options_priority_visit",
                              "options_weekend_visit", "options_extra_staff"}
                         |-> progress[f] ]
        IN  last.view.price =
                IF progress.service_type \in
                       {"storefront_cleaning", "fixture_install",
                        "event_support", "emergency_support",
                        "office_move_light"}
                THEN calc_estimate(progress.service_type, flags)
                ELSE 0

\* POST /estimate showed 0 although two option flags are enabled, the
\* stored service type being no catalog code
C13_Witness ==
    /\ last.op = "estimate"
    /\ get_booking_progress(session[last.sid]).service_type = "bogus"
    /\ get_booking_progress(session[last.sid]).options_photoreport
    /\ get_booking_progress(session[last.sid]).options_extra_staff
    /\ last.view.price = 0

\* validate_and_clean has returned from a call that checks preferred_date
C14_DateChecked ==
    /\ call.fn = "validate_and_clean" /\ call.done
    /\ (~call.partial) \/ "preferred_date" \in call.fields.set

\* C14: a preferred_date that parses as a date is accepted exactly when it
\* lies 0 to 180 days after today (a day before today is rejected as past,
\* a day after today + 180 as too far out), and an empty preferred_date
\* never gets an error.
C14_DateWindow ==
    (call.fn = "validate_and_clean" /\ call.done) =>
        LET d == call.form.preferred_date
            errors == call.result.errors
        IN  /\ d.kind = "empty" => "preferred_date" \notin DOMAIN errors
            /\ (C14_DateChecked /\ d.kind = "iso") =>
                   /\ ("preferred_date" \notin DOMAIN errors)
                          <=> (d.off >= 0 /\ d.off <= 180)
                   /\ d.off < 0 => errors["preferred_date"] = "date_past"
                   /\ d.off > 180 => errors["preferred_date"] = "date_too_far"

\* full validation accepted the date 180 days after today
C14_Witness ==
    /\ C14_DateChecked /\ ~call.partial
    /\ call.form.preferred_date = [kind |-> "iso", off |-> 180]
    /\ "preferred_date" \notin DOMAIN call.result.errors

\* validate_and_clean has returned from a call in full mode
C15_FullValidation ==
    call.fn = "validate_and_clean" /\ call.done /\ ~call.partial

\* s has 9 to 16 characters, each a digit, +, -, a parenthesis or one of
\* the characters of spaces
C15_Consists(s, spaces) ==
    /\ Len(s) >= 9 /\ Len(s) <= 16
    /\ \A i \in 1..Len(s) :
           s[i] \in {"0", "1", "2", "3", "4", "5", "6", "7", "8", "9",
                     "+", "-", "(", ")"} \cup spaces

\* C15 as stated: in full validation a phone error is produced exactly
\* when the submitted string does not consist of 9 to 16 characters drawn
\* from digits, +, -, parentheses and white space.
C15_SubmittedStringDecides ==
    C15_FullValidation =>
        ("phone" \in DOMAIN call.result.errors)
            <=> ~C15_Consists(call.form.phone, {" ", "\t", "\n"})

\* C15, amended: in full validation a phone error is produced exactly when
\* the submitted string, with the white space at its two ends removed,
\* does not consist of 9 to 16 characters drawn from digits, +, -,
\* parentheses and the space character.
C15_StrippedStringDecides ==
    C15_FullValidation =>
        ("phone" \in DOMAIN call.result.errors)
            <=> ~C15_Consists(Strip(call.form.phone), {" "})

\* full validation rejected ten characters of digits with a tab among them
C15_Witness ==
    /\ C15_FullValidation
    /\ Len(call.form.phone) = 10
    /\ \E i \in 2..9 : call.form.phone[i] = "\t"
    /\ "phone" \in DOMAIN call.result.errors
    /\ call.result.errors["phone"] = "phone_format"

\* the four steps of the wizard
C16_Steps == {"contact", "service", "options", "confirm"}

\* values the session key booking_current_step can hold: none, a step,
\* something else
C16_Stored ==
    { Null("") } \cup { Some(x) : x \in C16_Steps \cup {"payment", ""} }

\* C16: in every reachable state get_current_step returns one of contact,
\* service, options, confirm, and the stored value, when there is one, is
\* one of them; whatever the stored value, get_current_step reads a
\* missing or invalid one as contact and a valid one as itself; whatever
\* the step it is given, set_current_step stores a member of the sequence.
C16_CurrentStepInSequence ==
    \A sid \in DOMAIN session :
        LET s == session[sid]
        IN  /\ get_current_step(s) \in C16_Steps
            /\ s.booking_current_step.null => get_current_step(s) = "contact"
            /\ (~s.booking_current_step.null)
                   => s.booking_current_step.v \in C16_Steps
            /\ \A stored \in C16_Stored :
                   get_current_step([ s EXCEPT !.booking_current_step = stored ])
                       = IF (~stored.null) /\ stored.v \in C16_Steps
                         THEN stored.v ELSE "contact"
            /\ \A step \in C16_Steps \cup {"payment", ""} :
                   LET t == set_current_step(s, step)
                   IN  /\ ~t.booking_current_step.null
                       /\ t.booking_current_step.v
                              = IF step \in C16_Steps THEN step ELSE "contact"
                       /\ t.booking_progress = s.booking_progress

\* a session holds confirm as its current step and reads it back
C16_Witness ==
    \E sid \in DOMAIN session :
        /\ ~session[sid].booking_current_step.null
        /\ session[sid].booking_current_step.v = "confirm"
        /\ get_current_step(session[sid]) = "confirm"

\* C17: a GET or POST to /booking/step/<x> with x outside contact,
\* service, options, confirm is answered 404 and leaves the session's
\* progress, its current step and the bookings table as they were.
C17_UnknownStepChangesNothing ==
    [][ (/\ last'.op = "booking_step"
         /\ last'.step \notin {"contact", "service", "options", "confirm"})
            => /\ last'.code = 404
               /\ session' = session
               /\ bookings' = bookings ]_vars

\* a POST to /booking/step/payment was answered 404 in a session that
\* holds stored progress and the current step options
C17_Witness ==
    /\ last.op = "booking_step" /\ last.method = "POST"
    /\ last.step = "payment" /\ last.code = 404
    /\ ~session[last.sid].booking_progress.null
    /\ session[last.sid].booking_progress.v.name # <<>>
    /\ get_current_step(session[last.sid]) = "options"

\* C18: whatever the order of the requests of two sessions, a request made
\* in one session leaves the stored progress and the current step of the
\* other session as they were.
C18_SessionsIsolated ==
    [][ \A sid \in DOMAIN session :
            last'.sid # sid => session'[sid] = session[sid] ]_vars

\* session s2 has just booked and holds nothing, while session s1 still
\* holds its stored progress and its current step options
C18_Witness ==
    /\ DOMAIN session = {"s1", "s2"}
    /\ last.op = "book" /\ last.code = 302 /\ last.sid = "s2"
    /\ session["s2"].booking_progress.null
    /\ ~session["s1"].booking_progress.null
    /\ session["s1"].booking_progress.v.options_photoreport
    /\ get_current_step(session["s1"]) = "options"

\* the merge of the prior progress with a form posted to a step: a posted
\* text value, stripped of the white space at its ends, a posted service
\* type or date as it is, a posted flag as the test for "on"; a field that
\* is not posted keeps the prior value; on the options step each flag is
\* true exactly when it was posted non-empty
C19_Merged(prior, step, form) ==
    [ k \in DOMAIN prior |->
        IF k \in {"options_photoreport", "options_priority_visit",
                  "options_weekend_visit", "options_extra_staff"}
        THEN IF step = "options" THEN k \in form.has /\ form[k] # ""
             ELSE IF k \in form.has THEN form[k] = "on" ELSE prior[k]
        ELSE IF k \notin form.has THEN prior[k]
        ELSE IF k \in {"name", "email", "phone", "location", "message"}
             THEN Strip(form[k])
             ELSE form[k] ]

\* C19: every POST to a valid /booking/step/<s> stores the normalized
\* merge of the prior progress with the posted fields (posted values
\* override, unposted fields keep their prior values, on the options step
\* each flag is true exactly when posted non-empty), whether validation
\* failed, the request was validate-only, or the step advanced.
C19_PostStoresMerge ==
    [][ \A sid \in DOMAIN session, q \in StepRequests :
            (/\ last'.op = "booking_step" /\ last'.method = "POST"
             /\ last'.sid = sid /\ last'.step = q.step
             /\ BookingStepPost(sid, q.step, q.form))
                => session'[sid].booking_progress =
                       Some(C19_Merged(get_booking_progress(session[sid]),
                                       q.step, q.form)) ]_vars

\* a POST to step service failed validation and the session holds the
\* service type it posted, with the contact fields stored before
C19_Witness ==
    /\ StepPosted /\ last.step = "service"
    /\ "service_type" \in DOMAIN last.view.errors
    /\ ~session[last.sid].booking_progress.null
    /\ session[last.sid].booking_progress.v.service_type = "bogus"
    /\ session[last.sid].booking_progress.v.name = << "A", "l" >>

\* the columns of a row that book() fills from the request
C20_Columns(b) == [ k \in (DOMAIN b) \ {"id", "created_at"} |-> b[k] ]

\* C20: what POST /book does is decided by the posted form alone: in
\* every session state, the untouched one (current step contact, nothing
\* submitted) included, a form that passes full validation adds a row
\* whose columns are those of the cleaned form, and a form that fails is
\* answered 400 with the errors of the form and adds no row.
C20_BookDependsOnFormOnly ==
    [][ \A sid \in DOMAIN session, form \in BookForms :
            (/\ last'.op = "book" /\ last'.sid = sid
             /\ Book(sid, form))
                => LET r == BookValidation(form)
                   IN  IF DOMAIN r.errors = {}
                       THEN /\ last'.code = 302
                            /\ Len(bookings') = Len(bookings) + 1
                            /\ C20_Columns(bookings'[Len(bookings')])
                                   = C20_Columns(NewBooking(0, r.data, form))
                       ELSE /\ last'.code = 400
                            /\ last'.view.errors = r.errors
                            /\ bookings' = bookings ]_vars

\* POST /book has stored a booking made of the posted fields alone (no
\* email, no date, no option)
C20_Witness ==
    /\ last.op = "book" /\ last.code = 302
    /\ Len(bookings) = 1
    /\ bookings[1].name = << "A", "l" >>
    /\ bookings[1].email.null
    /\ bookings[1].preferred_date.null
    /\ bookings[1].est_price = 15000

====
